---- MODULE Spec2Model ----
(***************************************************************************)
(* Giveaway lifecycle of the Telegram giveaway bot (giveaway_bot.py), its  *)
(* prize ledger (db.py) and the web claim page (web_interface.py).         *)
(*                                                                         *)
(* The bot is one asyncio event loop: a handler runs without interruption  *)
(* from one await to the next, and handlers of different updates and the   *)
(* end_giveaway tasks interleave at their awaits.  Every action below is   *)
(* one such uninterrupted block, together with the database statement the *)
(* block was resumed by.  save_state_to_db, whose statements only write    *)
(* the giveaway_state table, runs inside the block that calls it, except   *)
(* in SpecJoins, where the save of every join is taken await by await.     *)
(***************************************************************************)
EXTENDS Integers, Sequences, FiniteSets, TLC

\* ---------------------------------------------------------------- bounds
MaxStarts  == 2     \* start commands (/start_giveaway, /contest) received
MaxUsers   == 2     \* chat users
MaxCancels == 1     \* /cancel_giveaway commands received
MaxClaims  == 2     \* /claim commands received
MaxWeb     == 2     \* web claim requests received
MaxRows    == 2     \* prize_claims rows present when the claim handlers start
MaxProfiles == 2    \* versions of a user's Telegram profile
MaxBots    == 1     \* accounts flagged is_bot that press Join
MaxRestarts == 1    \* times the bot process is stopped and started again
MaxCreates == 1     \* contests created while the bot runs
MaxConnects == 3    \* calls of get_db_connection whose results are logged

\* ------------------------------------------------------- program values
None == 0           \* Python None / SQL NULL
GroupChat == 1      \* the chat the announcement is posted to
StampInsert == 1    \* claimed_at written by the column default at INSERT
MaxRetries == 3     \* get_db_connection(max_retries=3, ...)
RetryDelay == 5     \* get_db_connection(..., retry_delay=5)

Users  == 1..MaxUsers
Bots   == (MaxUsers + 1)..(MaxUsers + MaxBots)
Profiles == 1..MaxProfiles
Gens   == 1..MaxStarts
ClaimSlots == 1..MaxClaims
WebSlots   == 1..MaxWeb

\* claimed_at written by the k-th /claim command, by the k-th web request
StampChat(k) == 10 + k
StampWeb(k)  == 20 + k

VARIABLES
    participants,         \* giveaway_bot.participants: user id -> User (its profile)
    winners,              \* giveaway_bot.winners: user id -> prize name
    claimed_winners,      \* giveaway_bot.claimed_winners
    current_contest_id,   \* None when no giveaway is running
    giveaway_message_id,
    giveaway_chat_id,
    giveaway_has_image,
    contests,             \* table contests: id -> definition
    contest_prizes,       \* table contest_prizes: rows (contest_id, position)
    prize_claims,         \* table prize_claims: sequence of rows, index = id
    giveaway_state,       \* table giveaway_state: sequence of rows, index = id
    startH,               \* start_giveaway_command / contest_command handlers
    timer,                \* end_giveaway tasks, one per start handler
    cancelH,              \* cancel_giveaway_command handler
    claimH,               \* claim_command handlers
    webH,                 \* show_prize requests of the web process
    joinH,                \* join_callback handlers suspended in save_state_to_db
    proc,                 \* the bot process: its starts and its last load
    statsH,               \* stats_command handler
    connH,                \* get_db_connection calls and the log of their results
    hist,                 \* history of the run (not program state)
    pool                  \* history: the participant ids the latest draw sampled

engine == <<participants, winners, claimed_winners, current_contest_id,
            giveaway_message_id, giveaway_chat_id, giveaway_has_image>>
catalog == <<contests, contest_prizes>>
side == <<statsH, connH>>
aux == <<joinH, proc, statsH, connH>>
vars == <<participants, winners, claimed_winners, current_contest_id,
          giveaway_message_id, giveaway_chat_id, giveaway_has_image,
          contests, contest_prizes, prize_claims, giveaway_state,
          startH, timer, cancelH, claimH, webH, joinH, proc, statsH, connH, hist, pool>>

\* ------------------------------------------------------------- helpers
EmptyMap == [u \in {} |-> None]

Min(a, b) == IF a <= b THEN a ELSE b

\* a selection that may name a member twice
SampleWithRepeats(population, k) == [1..k -> population]

\* secrets.SystemRandom().sample(population, k): every ordered selection of
\* k distinct members
Sample(population, k) ==
    {s \in [1..k -> population] : \A a, b \in 1..k : a # b => s[a] # s[b]}

\* ------------------------------------------------------------- catalog
ContestsInit ==
    (1 :> [duration |-> 60, winners_count |-> 2, prizes |-> <<"GiftA">>])
    @@ (2 :> [duration |-> 60, winners_count |-> 1, prizes |-> <<"GiftB", "GiftC">>])

\* create_contest_prizes: one slot per prize of the list, position from 1
SlotsOf(cid, prizes) == {[contest_id |-> cid, position |-> p] : p \in 1..Len(prizes)}

ContestPrizesInit == SlotsOf(1, ContestsInit[1].prizes) \cup SlotsOf(2, ContestsInit[2].prizes)

ContestArgs == {1, 2, 3}    \* 3 is an id no contest has before one is created

\* what the two creating paths are called with
DurationArgs == {0, 60}
WinnerArgs == {0, 1}
PrizeLists == {<<>>, <<" ">>, <<"GiftD">>, <<"", "GiftD">>, <<"GiftE,GiftF">>}

\* not p.strip()
IsBlank(p) == p \in {"", " "}

\* the validation that accepts everything
validate_nothing(duration, winners_count, prizes) == TRUE

validate_contest_params(duration, winners_count, prizes) ==
    /\ duration > 0
    /\ winners_count > 0
    /\ ~(Len(prizes) = 0 \/ \A i \in 1..Len(prizes) : IsBlank(prizes[i]))

\* p.split(',') of one prize string of PrizeLists
SplitPrize(p) == IF p = "GiftE,GiftF" THEN <<"GiftE", "GiftF">> ELSE <<p>>

RECURSIVE Flatten(_)
Flatten(seqs) == IF seqs = <<>> THEN <<>> ELSE Head(seqs) \o Flatten(Tail(seqs))

\* the prizes column: written as ','.join(prizes), read by get_contest_by_id
\* as result[3].split(',') if result[3] else []
StoredPrizes(prizes) ==
    IF prizes = <<>> \/ prizes = <<"">> THEN <<>>
    ELSE Flatten([i \in 1..Len(prizes) |-> SplitPrize(prizes[i])])

\* cursor.lastrowid of the AUTO_INCREMENT key
NextContestId == Cardinality(DOMAIN contests) + 1

CanCreate == Cardinality(DOMAIN contests) < Cardinality(DOMAIN ContestsInit) + MaxCreates

\* /create_contest with parsed arguments: _create_contest_response calls
\* db.add_contest, which inserts the row as given and creates no prize slot
create_contest_command(duration, winners_count, prizes) ==
    /\ CanCreate
    /\ contests' = contests @@
          (NextContestId :> [duration |-> duration, winners_count |-> winners_count,
                             prizes |-> StoredPrizes(prizes)])
    /\ hist' = [hist EXCEPT !.create = "created"]
    /\ UNCHANGED <<aux, pool, engine, contest_prizes, prize_claims, giveaway_state,
                   startH, timer, cancelH, claimH, webH>>

\* giveaway_bot.add_contest: empty prize strings are dropped, the parameters
\* are validated, the row is inserted and create_contest_prizes adds one
\* slot per prize of the list
add_contest(duration, winners_count, prizes) ==
    /\ CanCreate
    /\ LET kept == SelectSeq(prizes, LAMBDA p : p # "")
       IN IF ~validate_contest_params(duration, winners_count, kept)
          THEN /\ hist' = [hist EXCEPT !.create = "InvalidParameters"]
               /\ UNCHANGED catalog
          ELSE /\ contests' = contests @@
                     (NextContestId :> [duration |-> duration,
                                        winners_count |-> winners_count,
                                        prizes |-> StoredPrizes(kept)])
               /\ contest_prizes' = contest_prizes \cup SlotsOf(NextContestId, kept)
               /\ hist' = [hist EXCEPT !.create = "created"]
    /\ UNCHANGED <<aux, pool, engine, prize_claims, giveaway_state,
                   startH, timer, cancelH, claimH, webH>>

\* ------------------------------------------------------------- engine
is_giveaway_running == current_contest_id # None

CoordsSet == giveaway_chat_id # None /\ giveaway_message_id # None

\* json.dumps turns the int keys of a dict into strings: the string of the
\* int u is written 0 - u, a value that no int key equals
StrKey(u) == 0 - u

\* the values save_state_to_db serializes and binds to its statement
Serialize ==
    [participants |-> participants,
     winners |-> [k \in {StrKey(u) : u \in DOMAIN winners} |-> winners[0 - k]],
     claimed_winners |-> claimed_winners,
     giveaway_message_id |-> giveaway_message_id,
     giveaway_chat_id |-> giveaway_chat_id,
     giveaway_has_image |-> giveaway_has_image,
     current_contest_id |-> current_contest_id]

\* SELECT id FROM giveaway_state LIMIT 1, then UPDATE ... WHERE id = 1 or INSERT
SaveStatement(table, buf) ==
    IF Len(table) >= 1 THEN [table EXCEPT ![1] = buf] ELSE Append(table, buf)

\* save_state_to_db called at the end of a block that produced the primed state
save_state_to_db == giveaway_state' = SaveStatement(giveaway_state, Serialize')

\* ------------------------------------------------------- prize ledger
\* INSERT INTO prize_claims (contest_id, position, winner_user_id, security_code):
\* claimed_at takes its column default, CURRENT_TIMESTAMP; the security code
\* is a fresh token, here the number of the row
InsertClaim(table, cid, position, uid) ==
    Append(table, [contest_id |-> cid, position |-> position, winner_user_id |-> uid,
                   claimed_at |-> StampInsert, security_code |-> Len(table) + 1])

\* NOT NULL contest_id, the foreign key to contests, and the unique key
\* (contest_id, position, winner_user_id)
InsertAccepted(table, cid, position, uid) ==
    /\ cid # None
    /\ cid \in DOMAIN contests
    /\ \A k \in 1..Len(table) :
          ~(table[k].contest_id = cid /\ table[k].position = position
            /\ table[k].winner_user_id = uid)

\* ------------------------------------------------------- start handlers
StartIdle == [cmd |-> "none", pc |-> "idle", cid |-> None, open |-> FALSE]
ClaimIdle == [pc |-> "idle", user |-> None, contest_id |-> None, position |-> None,
              rc |-> -1, out |-> "none", after |-> {}]
WebIdle == [pc |-> "idle", code |-> None, rc |-> -1, out |-> "none"]
TimerNone == [pc |-> "none", cid |-> None, sel |-> <<>>, n |-> 0, arg |-> None,
              coords |-> FALSE, rows |-> {}]
CancelIdle == [pc |-> "idle", cid |-> None, gen |-> 0, coords |-> FALSE]
JoinIdle == [pc |-> "idle", open |-> FALSE, existing |-> FALSE,
             buf |-> [participants |-> EmptyMap, winners |-> EmptyMap,
                      claimed_winners |-> {}]]

NoCounts == [participants |-> 0, winners |-> 0, claimed |-> 0]
StatsIdle == [pc |-> "idle", cid |-> None, out |-> "none", counts |-> NoCounts]
ConnIdle == [pc |-> "idle", attempt |-> 0, made |-> 0, slept |-> 0, out |-> "none",
             log |-> <<>>]

\* the process main() started first, against a database without a snapshot
ProcFirst == [boots |-> 0, up |-> TRUE, load |-> "empty"]

\* the check of start_giveaway_command before its first suspension;
\* contest_command has no such check
StartAdmits(cmd) == cmd = "contest" \/ ~is_giveaway_running

StartReceive(i, cmd, cid) ==
    /\ startH[i].pc = "idle"
    /\ i > 1 => startH[i - 1].pc # "idle"
    /\ startH' = [startH EXCEPT ![i] =
                    IF StartAdmits(cmd)
                    THEN [cmd |-> cmd, cid |-> cid, pc |-> "fetch",
                          open |-> is_giveaway_running]
                    ELSE [StartIdle EXCEPT !.pc = "rejected"]]
    /\ UNCHANGED <<aux, pool, engine, catalog, prize_claims, giveaway_state,
                   timer, cancelH, claimH, webH, hist>>

\* get_contest_by_id returned or raised: an unknown id ends the handler, a
\* stored definition that fails validate_contest_params raises ValueError
\* out of it, otherwise the state is initialized and the announcement is sent
StartInitialize(i) ==
    /\ startH[i].pc = "fetch"
    /\ IF startH[i].cid \notin DOMAIN contests
       THEN /\ startH' = [startH EXCEPT ![i] = [StartIdle EXCEPT !.pc = "notfound"]]
            /\ UNCHANGED <<engine, hist>>
       ELSE IF ~validate_contest_params(contests[startH[i].cid].duration,
                                        contests[startH[i].cid].winners_count,
                                        contests[startH[i].cid].prizes)
       THEN /\ startH' = [startH EXCEPT ![i] = [StartIdle EXCEPT !.pc = "invalid"]]
            /\ UNCHANGED <<engine, hist>>
       ELSE /\ participants' = EmptyMap
            /\ winners' = EmptyMap
            /\ claimed_winners' = {}
            /\ current_contest_id' = startH[i].cid
            /\ giveaway_has_image' = FALSE
            /\ UNCHANGED <<giveaway_message_id, giveaway_chat_id>>
            /\ startH' = [startH EXCEPT ![i].pc = "send"]
            /\ hist' = [hist EXCEPT !.activeGen = i]
    /\ UNCHANGED <<aux, pool, catalog, prize_claims, giveaway_state,
                   timer, cancelH, claimH, webH>>

\* _send_giveaway_message returned or raised; start_giveaway_command stores
\* the coordinates in the globals, contest_command in locals; then the save
StartSent(i, ok) ==
    /\ startH[i].pc = "send"
    /\ IF ~ok
       THEN /\ startH' = [startH EXCEPT ![i] = [StartIdle EXCEPT !.pc = "failed"]]
            /\ UNCHANGED <<engine, giveaway_state>>
       ELSE /\ IF startH[i].cmd = "start_giveaway"
               THEN /\ giveaway_message_id' = i
                    /\ giveaway_chat_id' = GroupChat
               ELSE UNCHANGED <<giveaway_message_id, giveaway_chat_id>>
            /\ UNCHANGED <<participants, winners, claimed_winners,
                           current_contest_id, giveaway_has_image>>
            /\ startH' = [startH EXCEPT ![i].pc = "arm"]
            /\ save_state_to_db
    /\ UNCHANGED <<aux, pool, catalog, prize_claims, timer, cancelH, claimH, webH, hist>>

\* asyncio.create_task(end_giveaway(...)) after save_state_to_db returned
StartArm(i) ==
    /\ startH[i].pc = "arm"
    /\ startH' = [startH EXCEPT ![i] = [StartIdle EXCEPT !.pc = "done"]]
    /\ timer' = [timer EXCEPT ![i] = [TimerNone EXCEPT !.pc = "sleep", !.cid = startH[i].cid]]
    /\ UNCHANGED <<aux, pool, engine, catalog, prize_claims, giveaway_state,
                   cancelH, claimH, webH, hist>>

\* ----------------------------------------------------------------- join
\* the test without effect: every account passes for a human
is_bot_never(u) == FALSE

\* callback.from_user.is_bot
is_bot(u) == u \in Bots

\* the test without effect: every Join is taken for a first one
never_in_participants(u) == FALSE

\* user.id in participants
in_participants(u) == u \in DOMAIN participants

\* join_callback of the account u whose profile is now p: no check that a
\* giveaway is running; a bot is answered and nothing else happens; a first
\* Join stores the User; every Join of a human ends with the save
join_callback(u, p) ==
    /\ IF is_bot(u)
       THEN UNCHANGED <<engine, giveaway_state>>
       ELSE /\ IF in_participants(u)
               THEN UNCHANGED participants
               ELSE participants' = [v \in DOMAIN participants \cup {u} |->
                                       IF v = u THEN p ELSE participants[v]]
            /\ UNCHANGED <<winners, claimed_winners, current_contest_id,
                           giveaway_message_id, giveaway_chat_id, giveaway_has_image>>
            /\ save_state_to_db
    /\ UNCHANGED <<aux, pool, catalog, prize_claims, startH, timer, cancelH, claimH, webH>>

\* the answer join_callback gives to the account u
JoinAnswer(u) ==
    IF is_bot(u) THEN "bot" ELSE IF in_participants(u) THEN "already" ELSE "joined"

\* the latest press of Join: the answer, and whether the press came from a
\* participant whose profile differs from the stored one
NoJoin == [out |-> "none", changed |-> FALSE]

\* ------------------------------------------- join, save step by step
\* save_state_to_db between its awaits: the three json.dumps calls run when
\* the connection is there, before the SELECT is awaited
SerializeLists ==
    [participants |-> participants,
     winners |-> [k \in {StrKey(u) : u \in DOMAIN winners} |-> winners[0 - k]],
     claimed_winners |-> claimed_winners]

\* the parameters of the UPDATE or INSERT: the three strings serialized
\* before the SELECT and the four globals as they are when it is issued
BoundRow(buf) ==
    [participants |-> buf.participants,
     winners |-> buf.winners,
     claimed_winners |-> buf.claimed_winners,
     giveaway_message_id |-> giveaway_message_id,
     giveaway_chat_id |-> giveaway_chat_id,
     giveaway_has_image |-> giveaway_has_image,
     current_contest_id |-> current_contest_id]

\* if existing: UPDATE ... WHERE id = 1, else: INSERT
SaveWrite(table, existing, row) ==
    IF existing
    THEN IF Len(table) >= 1 THEN [table EXCEPT ![1] = row] ELSE table
    ELSE Append(table, row)

\* the press of Join by the human u up to the await of get_db_connection;
\* open: a giveaway is running whose announcement carries the button
JoinPress(u) ==
    /\ joinH[u].pc = "idle"
    /\ IF in_participants(u)
       THEN UNCHANGED participants
       ELSE participants' = [v \in DOMAIN participants \cup {u} |->
                               IF v = u THEN 1 ELSE participants[v]]
    /\ joinH' = [joinH EXCEPT ![u].pc = "conn",
                              ![u].open = is_giveaway_running /\ CoordsSet]
    /\ UNCHANGED <<winners, claimed_winners, current_contest_id,
                   giveaway_message_id, giveaway_chat_id, giveaway_has_image>>
    /\ UNCHANGED <<proc, side, pool, catalog, prize_claims, giveaway_state,
                   startH, timer, cancelH, claimH, webH, hist>>

\* the connection is there: the strings are serialized, the SELECT is sent
JoinSerialize(u) ==
    /\ joinH[u].pc = "conn"
    /\ joinH' = [joinH EXCEPT ![u].pc = "select", ![u].buf = SerializeLists]
    /\ UNCHANGED <<proc, side, pool, engine, catalog, prize_claims, giveaway_state,
                   startH, timer, cancelH, claimH, webH, hist>>

\* SELECT id FROM giveaway_state LIMIT 1 is executed by the database
JoinSelect(u) ==
    /\ joinH[u].pc = "select"
    /\ joinH' = [joinH EXCEPT ![u].pc = "write", ![u].existing = Len(giveaway_state) >= 1]
    /\ UNCHANGED <<proc, side, pool, engine, catalog, prize_claims, giveaway_state,
                   startH, timer, cancelH, claimH, webH, hist>>

\* the SELECT returned: the UPDATE or INSERT is issued, executed and committed
JoinWrite(u) ==
    /\ joinH[u].pc = "write"
    /\ giveaway_state' = SaveWrite(giveaway_state, joinH[u].existing,
                                   BoundRow(joinH[u].buf))
    /\ joinH' = [joinH EXCEPT ![u].pc = "done"]
    /\ UNCHANGED <<proc, side, pool, engine, catalog, prize_claims,
                   startH, timer, cancelH, claimH, webH, hist>>

\* --------------------------------------------------------- end_giveaway
\* the placeholder numbered from the loop index instead of the position
prize_name_from_index(cid, position) ==
    IF position <= Len(contests[cid].prizes)
    THEN contests[cid].prizes[position]
    ELSE "Prize " \o ToString(position - 1)

\* prizes[i] if i < len(prizes) else f"Prize {position}", with i = position - 1
prize_name(cid, position) ==
    IF position <= Len(contests[cid].prizes)
    THEN contests[cid].prizes[position]
    ELSE "Prize " \o ToString(position)

\* asyncio.sleep(duration) returned: the empty check, the clamping, the sample
TimerFire(g) ==
    /\ timer[g].pc = "sleep"
    /\ hist' = [hist EXCEPT !.drawn = @ \cup {hist.activeGen}]
    /\ IF DOMAIN participants = {}
       THEN /\ timer' = [timer EXCEPT ![g].pc = "notify_empty", ![g].coords = CoordsSet]
            /\ UNCHANGED winners
       ELSE \E sel \in Sample(DOMAIN participants,
                              Min(contests[timer[g].cid].winners_count,
                                  Cardinality(DOMAIN participants))) :
            /\ winners' = EmptyMap
            /\ timer' = [timer EXCEPT ![g].pc = "assign", ![g].sel = sel, ![g].n = 0,
                                      ![g].arg = current_contest_id]
    /\ UNCHANGED <<aux, participants, claimed_winners, current_contest_id,
                   giveaway_message_id, giveaway_chat_id, giveaway_has_image,
                   catalog, prize_claims, giveaway_state,
                   startH, cancelH, claimH, webH>>

\* assign_winner_to_prize_position returned or raised for winner n + 1: it
\* raises when the database is unreachable (~ok) or refuses the row, and the
\* exception ends the task; rows holds the ids of the rows this task wrote
TimerAssign(g, ok) ==
    /\ timer[g].pc = "assign"
    /\ LET position == timer[g].n + 1
           uid == timer[g].sel[position]
       IN IF ~(ok /\ InsertAccepted(prize_claims, timer[g].arg, position, uid))
          THEN /\ timer' = [timer EXCEPT ![g] = [TimerNone EXCEPT !.pc = "failed"]]
               /\ UNCHANGED <<winners, prize_claims>>
          ELSE /\ prize_claims' = InsertClaim(prize_claims, timer[g].arg, position, uid)
               /\ winners' = [u \in DOMAIN winners \cup {uid} |->
                                IF u = uid THEN prize_name(timer[g].cid, position)
                                ELSE winners[u]]
               /\ timer' = IF position < Len(timer[g].sel)
                           THEN [timer EXCEPT ![g].n = position,
                                              ![g].arg = current_contest_id,
                                              ![g].rows = @ \cup {Len(prize_claims) + 1}]
                           ELSE [timer EXCEPT ![g].n = position, ![g].pc = "notify",
                                              ![g].coords = CoordsSet,
                                              ![g].rows = @ \cup {Len(prize_claims) + 1}]
    /\ UNCHANGED <<aux, pool, participants, claimed_winners, current_contest_id,
                   giveaway_message_id, giveaway_chat_id, giveaway_has_image,
                   catalog, giveaway_state, startH, cancelH, claimH, webH, hist>>

\* bot.edit_message_text returned or raised: it raises when Telegram is
\* unreachable (~ok) and when the call names no message, and the exception
\* ends the task
TimerNotified(g, ok) ==
    /\ timer[g].pc \in {"notify_empty", "notify"}
    /\ IF ~(ok /\ timer[g].coords)
       THEN /\ timer' = [timer EXCEPT ![g] = [TimerNone EXCEPT !.pc = "failed"]]
            /\ UNCHANGED <<engine, giveaway_state>>
       ELSE /\ current_contest_id' = None
            /\ giveaway_message_id' = None
            /\ giveaway_chat_id' = None
            /\ giveaway_has_image' = FALSE
            /\ UNCHANGED <<participants, winners, claimed_winners>>
            /\ save_state_to_db
            /\ timer' = [timer EXCEPT ![g] = [TimerNone EXCEPT !.pc = "done"]]
    /\ UNCHANGED <<aux, pool, catalog, prize_claims, startH, cancelH, claimH, webH, hist>>

\* -------------------------------------------------------------- cancel
\* the admin check returned: the running check
CancelReceive ==
    /\ cancelH.pc = "idle"
    /\ hist.cancels < MaxCancels
    /\ hist' = [hist EXCEPT !.cancels = @ + 1]
    /\ cancelH' = IF is_giveaway_running
                  THEN [CancelIdle EXCEPT !.pc = "fetch", !.cid = current_contest_id,
                                          !.gen = hist.activeGen]
                  ELSE CancelIdle
    /\ UNCHANGED <<aux, pool, engine, catalog, prize_claims, giveaway_state,
                   startH, timer, claimH, webH>>

\* get_contest_by_id returned: the announcement is edited
CancelFetched ==
    /\ cancelH.pc = "fetch"
    /\ cancelH' = IF cancelH.cid \in DOMAIN contests
                  THEN [cancelH EXCEPT !.pc = "edit", !.coords = CoordsSet]
                  ELSE CancelIdle
    /\ UNCHANGED <<aux, pool, engine, catalog, prize_claims, giveaway_state,
                   startH, timer, claimH, webH, hist>>

\* the edit returned: the state is cleared and saved; or it raised, and the
\* except clause answers with the error
CancelEdited(ok) ==
    /\ cancelH.pc = "edit"
    /\ cancelH' = CancelIdle
    /\ IF ~(ok /\ cancelH.coords)
       THEN UNCHANGED <<engine, giveaway_state, hist>>
       ELSE /\ participants' = EmptyMap
            /\ winners' = EmptyMap
            /\ claimed_winners' = {}
            /\ current_contest_id' = None
            /\ giveaway_message_id' = None
            /\ giveaway_chat_id' = None
            /\ giveaway_has_image' = FALSE
            /\ save_state_to_db
            /\ hist' = [hist EXCEPT !.cancelled = @ \cup {cancelH.gen}]
    /\ UNCHANGED <<aux, pool, catalog, prize_claims, startH, timer, claimH, webH>>

\* -------------------------------------------------------------- restart
\* the state of lines 562-568 and again of lines 572-578
EmptyState ==
    [participants |-> EmptyMap, winners |-> EmptyMap, claimed_winners |-> {},
     giveaway_message_id |-> None, giveaway_chat_id |-> None,
     giveaway_has_image |-> FALSE, current_contest_id |-> None]

\* lines 549-558 applied to a row: participants are keyed again by the id
\* of each user, claimed_winners becomes a set again, and winners is the
\* dict json.loads returns, its keys the strings json.dumps wrote
LoadRow(row) ==
    [participants |-> row.participants,
     winners |-> row.winners,
     claimed_winners |-> row.claimed_winners,
     giveaway_message_id |-> row.giveaway_message_id,
     giveaway_chat_id |-> row.giveaway_chat_id,
     giveaway_has_image |-> row.giveaway_has_image,
     current_contest_id |-> row.current_contest_id]

\* how load_state_from_db ends: the connection cannot be made (the await of
\* line 538 stands before the try), the SELECT finds no row, a json.loads or
\* deserialize_user raises, or the row is loaded
LoadOutcome(store) ==
    IF store = "unreachable" THEN "unreachable"
    ELSE IF Len(giveaway_state) = 0 THEN "empty"
    ELSE IF store = "corrupt" THEN "failed"
    ELSE "row"

\* user_id in winners, the test of claim_prize
is_winner(u) == u \in DOMAIN winners

\* the process is stopped and main() runs again: handlers and countdowns
\* are gone, init_database and load_state_from_db run, and start_polling is
\* reached unless one of the two raised
Restart(store) ==
    /\ proc.boots < MaxRestarts
    /\ LET outcome == LoadOutcome(store)
           loaded == IF outcome = "row" THEN LoadRow(giveaway_state[1]) ELSE EmptyState
       IN /\ proc' = [boots |-> proc.boots + 1, up |-> outcome # "unreachable",
                      load |-> outcome]
          /\ participants' = loaded.participants
          /\ winners' = loaded.winners
          /\ claimed_winners' = loaded.claimed_winners
          /\ giveaway_message_id' = loaded.giveaway_message_id
          /\ giveaway_chat_id' = loaded.giveaway_chat_id
          /\ giveaway_has_image' = loaded.giveaway_has_image
          /\ current_contest_id' = loaded.current_contest_id
    /\ startH' = [i \in Gens |-> StartIdle]
    /\ timer' = [i \in Gens |-> TimerNone]
    /\ cancelH' = CancelIdle
    /\ claimH' = [k \in ClaimSlots |-> ClaimIdle]
    /\ joinH' = [u \in Users |-> JoinIdle]
    /\ statsH' = StatsIdle
    /\ UNCHANGED <<connH, catalog, prize_claims, giveaway_state, webH, hist, pool>>

\* ---------------------------------------------------------------- stats
\* the counts taken from the snapshot row instead of the maps in memory
StatsCountsSaved ==
    IF Len(giveaway_state) = 0 THEN NoCounts
    ELSE [participants |-> Cardinality(DOMAIN giveaway_state[1].participants),
          winners |-> Cardinality(DOMAIN giveaway_state[1].winners),
          claimed |-> Cardinality(giveaway_state[1].claimed_winners)]

\* len(participants), len(winners), len(claimed_winners)
StatsCounts ==
    [participants |-> Cardinality(DOMAIN participants),
     winners |-> Cardinality(DOMAIN winners),
     claimed |-> Cardinality(claimed_winners)]

\* /stats by an admin, the admin check returned: without a running giveaway
\* the answer is "No active giveaway", otherwise the contest is fetched
StatsReceive ==
    /\ statsH.pc \in {"idle", "done"}
    /\ statsH' = IF ~is_giveaway_running
                 THEN [StatsIdle EXCEPT !.pc = "done", !.out = "NoActiveGiveaway"]
                 ELSE [StatsIdle EXCEPT !.pc = "fetch", !.cid = current_contest_id]
    /\ UNCHANGED <<joinH, proc, connH, pool, engine, catalog, prize_claims,
                   giveaway_state, startH, timer, cancelH, claimH, webH, hist>>

\* get_contest_by_id returned or raised: the text with the three counts is
\* built and sent
StatsFetched(ok) ==
    /\ statsH.pc = "fetch"
    /\ statsH' = IF ~ok THEN [StatsIdle EXCEPT !.pc = "done", !.out = "Error"]
                 ELSE IF statsH.cid \notin DOMAIN contests
                 THEN [StatsIdle EXCEPT !.pc = "done", !.out = "NotFound"]
                 ELSE [StatsIdle EXCEPT !.pc = "done", !.out = "Stats",
                                        !.counts = StatsCounts]
    /\ UNCHANGED <<joinH, proc, connH, pool, engine, catalog, prize_claims,
                   giveaway_state, startH, timer, cancelH, claimH, webH, hist>>

\* ------------------------------------------------------ get_db_connection
\* the test that never ends the retries
never_last_attempt(attempt) == FALSE

\* not (attempt < max_retries - 1)
is_last_attempt(attempt) == ~(attempt < MaxRetries - 1)

\* get_db_connection is called; log keeps the results of the calls before
ConnectCall ==
    /\ connH.pc \in {"idle", "done"}
    /\ Len(connH.log) < MaxConnects
    /\ connH' = [ConnIdle EXCEPT !.pc = "try", !.log = connH.log]
    /\ UNCHANGED <<joinH, proc, statsH, pool, engine, catalog, prize_claims,
                   giveaway_state, startH, timer, cancelH, claimH, webH, hist>>

\* aiomysql.connect returned or raised aiomysql.Error: the connection is
\* returned, or the last attempt raises the connection failure, or the
\* delay is slept
ConnectAttempt(ok) ==
    /\ connH.pc = "try"
    /\ connH' =
          IF ok
          THEN [connH EXCEPT !.pc = "done", !.made = @ + 1, !.out = "connection",
                             !.log = Append(@, <<"connection", connH.made + 1>>)]
          ELSE IF is_last_attempt(connH.attempt)
          THEN [connH EXCEPT !.pc = "done", !.made = @ + 1, !.out = "ConnectionError",
                             !.log = Append(@, <<"ConnectionError", connH.made + 1>>)]
          ELSE [connH EXCEPT !.pc = "sleep", !.made = @ + 1]
    /\ UNCHANGED <<joinH, proc, statsH, pool, engine, catalog, prize_claims,
                   giveaway_state, startH, timer, cancelH, claimH, webH, hist>>

\* asyncio.sleep(retry_delay) returned: the next round of the for loop, or
\* the end of the loop and of the function
ConnectSleep ==
    /\ connH.pc = "sleep"
    /\ connH' =
          IF connH.attempt + 1 < MaxRetries
          THEN [connH EXCEPT !.pc = "try", !.attempt = @ + 1, !.slept = @ + RetryDelay]
          ELSE [connH EXCEPT !.pc = "done", !.slept = @ + RetryDelay, !.out = "None",
                             !.log = Append(@, <<"None", connH.made>>)]
    /\ UNCHANGED <<joinH, proc, statsH, pool, engine, catalog, prize_claims,
                   giveaway_state, startH, timer, cancelH, claimH, webH, hist>>

\* ---------------------------------------------------------------- claim
\* the update without its claimed_at IS NULL condition
ClaimWhereAnyRow(row, cid, uid) ==
    row.contest_id = cid /\ row.winner_user_id = uid

\* WHERE contest_id = %s AND winner_user_id = %s AND claimed_at IS NULL
ClaimWhere(row, cid, uid) ==
    row.contest_id = cid /\ row.winner_user_id = uid /\ row.claimed_at = None

\* db.mark_prize_as_claimed: the UPDATE and its cursor.rowcount
MarkRowCount(table, cid, uid) ==
    Cardinality({k \in 1..Len(table) : ClaimWhere(table[k], cid, uid)})

MarkClaimed(table, cid, uid, stamp) ==
    [k \in 1..Len(table) |->
        IF ClaimWhere(table[k], cid, uid)
        THEN [table[k] EXCEPT !.claimed_at = stamp] ELSE table[k]]

\* the lookup without its claimed_at IS NULL condition
UnclaimedWhereAnyRow(row, uid) ==
    /\ row.winner_user_id = uid
    /\ [contest_id |-> row.contest_id, position |-> row.position] \in contest_prizes

\* FROM contest_prizes cp JOIN prize_claims pc ON contest and position
\* WHERE pc.winner_user_id = %s AND pc.claimed_at IS NULL
UnclaimedWhere(row, uid) ==
    /\ row.winner_user_id = uid
    /\ row.claimed_at = None
    /\ [contest_id |-> row.contest_id, position |-> row.position] \in contest_prizes

\* ORDER BY pc.contest_id DESC, cp.position ASC LIMIT 1: the row id, 0 for no row
get_latest_unclaimed_prize_for_user(table, uid) ==
    LET found == {k \in 1..Len(table) : UnclaimedWhere(table[k], uid)}
        first(k) == \A j \in found :
                       \/ table[j].contest_id < table[k].contest_id
                       \/ /\ table[j].contest_id = table[k].contest_id
                          /\ table[j].position >= table[k].position
    IN IF found = {} THEN 0 ELSE CHOOSE k \in found : first(k)

\* /claim in a private chat: get_latest_unclaimed_prize_for_user is awaited
ClaimReceive(k, u) ==
    /\ claimH[k].pc = "idle"
    /\ k > 1 => claimH[k - 1].pc # "idle"
    /\ claimH' = [claimH EXCEPT ![k] =
                    [ClaimIdle EXCEPT !.pc = "lookup", !.user = u,
                                      !.after = {j \in ClaimSlots : claimH[j].pc = "done"}]]
    /\ UNCHANGED <<aux, pool, engine, catalog, prize_claims, giveaway_state,
                   startH, timer, cancelH, webH, hist>>

\* the lookup returned: no row ends the handler, otherwise the update is awaited
ClaimLookup(k) ==
    /\ claimH[k].pc = "lookup"
    /\ LET r == get_latest_unclaimed_prize_for_user(prize_claims, claimH[k].user)
       IN claimH' = [claimH EXCEPT ![k] =
                       IF r = 0
                       THEN [@ EXCEPT !.pc = "done", !.out = "NothingToClaim"]
                       ELSE [@ EXCEPT !.pc = "mark",
                                      !.contest_id = prize_claims[r].contest_id,
                                      !.position = prize_claims[r].position]]
    /\ UNCHANGED <<aux, pool, engine, catalog, prize_claims, giveaway_state,
                   startH, timer, cancelH, webH, hist>>

\* mark_prize_as_claimed returned: no row updated ends the handler with the
\* error answer, otherwise the prize is sent and the state is saved
ClaimMark(k) ==
    /\ claimH[k].pc = "mark"
    /\ LET rc == MarkRowCount(prize_claims, claimH[k].contest_id, claimH[k].user)
       IN /\ prize_claims' = MarkClaimed(prize_claims, claimH[k].contest_id,
                                         claimH[k].user, StampChat(k))
          /\ claimH' = [claimH EXCEPT ![k].pc = "done", ![k].rc = rc,
                           ![k].out = IF rc = 0 THEN "AlreadyClaimed" ELSE "Prize"]
          /\ IF rc = 0 THEN UNCHANGED giveaway_state
             ELSE giveaway_state' = SaveStatement(giveaway_state, Serialize)
    /\ UNCHANGED <<aux, pool, engine, catalog, startH, timer, cancelH, webH, hist>>

\* ------------------------------------------------------------ web claim
\* the web update without its claimed_at IS NULL condition
WebWhereAnyRow(row, code) == row.security_code = code

\* web_interface.mark_prize_as_claimed:
\* WHERE security_code = %s AND claimed_at IS NULL
WebWhere(row, code) == row.security_code = code /\ row.claimed_at = None

WebRowCount(table, code) ==
    Cardinality({k \in 1..Len(table) : WebWhere(table[k], code)})

WebMarkClaimed(table, code, stamp) ==
    [k \in 1..Len(table) |->
        IF WebWhere(table[k], code)
        THEN [table[k] EXCEPT !.claimed_at = stamp] ELSE table[k]]

\* get_prize_by_security_code: the row id, 0 for no row
get_prize_by_security_code(table, code) ==
    IF \E k \in 1..Len(table) : table[k].security_code = code
    THEN CHOOSE k \in 1..Len(table) : table[k].security_code = code
    ELSE 0

WebCodes == 1..(MaxRows + 1)

\* GET /{security_code}
WebReceive(k, code) ==
    /\ webH[k].pc = "idle"
    /\ k > 1 => webH[k - 1].pc # "idle"
    /\ webH' = [webH EXCEPT ![k] = [WebIdle EXCEPT !.pc = "lookup", !.code = code]]
    /\ UNCHANGED <<aux, pool, engine, catalog, prize_claims, giveaway_state,
                   startH, timer, cancelH, claimH, hist>>

\* the SELECT returned or raised (it names a prizes table, prize_claims.prize_id
\* and contests.group_title, which the database of the web process may or may
\* not have): the three pages without the prize, or the update is awaited
WebLookup(k, ok) ==
    /\ webH[k].pc = "lookup"
    /\ LET r == get_prize_by_security_code(prize_claims, webH[k].code)
       IN webH' = [webH EXCEPT ![k] =
                     IF ~ok THEN [@ EXCEPT !.pc = "done", !.out = "Error"]
                     ELSE IF r = 0 THEN [@ EXCEPT !.pc = "done", !.out = "NotFound"]
                     ELSE IF prize_claims[r].claimed_at # None
                          THEN [@ EXCEPT !.pc = "done", !.out = "AlreadyClaimed"]
                     ELSE [@ EXCEPT !.pc = "mark"]]
    /\ UNCHANGED <<aux, pool, engine, catalog, prize_claims, giveaway_state,
                   startH, timer, cancelH, claimH, hist>>

\* the update returned, its result is dropped, and the prize page is rendered
WebMark(k) ==
    /\ webH[k].pc = "mark"
    /\ prize_claims' = WebMarkClaimed(prize_claims, webH[k].code, StampWeb(k))
    /\ webH' = [webH EXCEPT ![k].pc = "done",
                            ![k].rc = WebRowCount(prize_claims, webH[k].code),
                            ![k].out = "Prize"]
    /\ UNCHANGED <<aux, pool, engine, catalog, giveaway_state,
                   startH, timer, cancelH, claimH, hist>>

\* ----------------------------------------------------------------- spec
Init ==
    /\ participants = EmptyMap
    /\ winners = EmptyMap
    /\ claimed_winners = {}
    /\ current_contest_id = None
    /\ giveaway_message_id = None
    /\ giveaway_chat_id = None
    /\ giveaway_has_image = FALSE
    /\ contests = ContestsInit
    /\ contest_prizes = ContestPrizesInit
    /\ prize_claims = <<>>
    /\ giveaway_state = <<>>
    /\ startH = [i \in Gens |-> StartIdle]
    /\ timer = [i \in Gens |-> TimerNone]
    /\ cancelH = CancelIdle
    /\ claimH = [k \in ClaimSlots |-> ClaimIdle]
    /\ webH = [k \in WebSlots |-> WebIdle]
    /\ joinH = [u \in Users |-> JoinIdle]
    /\ proc = ProcFirst
    /\ statsH = StatsIdle
    /\ connH = ConnIdle
    /\ hist = [activeGen |-> 0, cancels |-> 0, cancelled |-> {}, drawn |-> {},
               ledger0 |-> <<>>, join |-> NoJoin, create |-> "none"]
    /\ pool = {}

Lifecycle ==
    \/ \E i \in Gens, cmd \in {"start_giveaway", "contest"}, cid \in ContestArgs :
          StartReceive(i, cmd, cid)
    \/ \E i \in Gens : StartInitialize(i)
    \/ \E i \in Gens, ok \in BOOLEAN : StartSent(i, ok)
    \/ \E i \in Gens : StartArm(i)
    \/ \E u \in Users : join_callback(u, 1) /\ UNCHANGED hist
    \/ \E g \in Gens : TimerFire(g) /\ UNCHANGED pool
    \/ \E g \in Gens, ok \in BOOLEAN : TimerAssign(g, ok)
    \/ \E g \in Gens, ok \in BOOLEAN : TimerNotified(g, ok)
    \/ CancelReceive
    \/ CancelFetched
    \/ \E ok \in BOOLEAN : CancelEdited(ok)

Claiming ==
    \/ \E k \in ClaimSlots, u \in Users : ClaimReceive(k, u)
    \/ \E k \in ClaimSlots : ClaimLookup(k)
    \/ \E k \in ClaimSlots : ClaimMark(k)
    \/ \E k \in WebSlots, code \in WebCodes : WebReceive(k, code)
    \/ \E k \in WebSlots, ok \in BOOLEAN : WebLookup(k, ok)
    \/ \E k \in WebSlots : WebMark(k)

\* the bot from its first start against an empty database
Spec == Init /\ [][Lifecycle]_vars

\* the same handlers when the database and Telegram are reachable at every
\* call: a call raises only for what the program passed to it
Reliable ==
    \/ \E i \in Gens, cmd \in {"start_giveaway", "contest"}, cid \in ContestArgs :
          StartReceive(i, cmd, cid)
    \/ \E i \in Gens : StartInitialize(i)
    \/ \E i \in Gens : StartSent(i, TRUE)
    \/ \E i \in Gens : StartArm(i)
    \/ \E u \in Users : join_callback(u, 1) /\ UNCHANGED hist
    \/ \E g \in Gens : TimerFire(g) /\ UNCHANGED pool
    \/ \E g \in Gens : TimerAssign(g, TRUE)
    \/ \E g \in Gens : TimerNotified(g, TRUE)
    \/ CancelReceive
    \/ CancelFetched
    \/ CancelEdited(TRUE)

SpecReliable == Init /\ [][Reliable]_vars

\* one giveaway and its cancellation, with Join pressed by humans whose
\* profile changes between presses and by bot accounts; hist.join is the
\* answer to the latest press
Single ==
    \/ \E cmd \in {"start_giveaway", "contest"}, cid \in ContestArgs :
          StartReceive(1, cmd, cid)
    \/ StartInitialize(1)
    \/ \E ok \in BOOLEAN : StartSent(1, ok)
    \/ StartArm(1)
    \/ \E u \in Users \cup Bots, p \in Profiles :
          join_callback(u, p)
          /\ hist' = [hist EXCEPT !.join =
                         [out |-> JoinAnswer(u),
                          changed |-> in_participants(u) /\ participants[u] # p]]
    \/ TimerFire(1) /\ UNCHANGED pool
    \/ \E ok \in BOOLEAN : TimerAssign(1, ok)
    \/ \E ok \in BOOLEAN : TimerNotified(1, ok)
    \/ CancelReceive
    \/ CancelFetched
    \/ \E ok \in BOOLEAN : CancelEdited(ok)

SpecSingle == Init /\ [][Single]_vars

\* one /start_giveaway and one press of Join by every human, the save of
\* each press taken step by step
Joins ==
    \/ \E cid \in ContestArgs : StartReceive(1, "start_giveaway", cid)
    \/ StartInitialize(1)
    \/ StartSent(1, TRUE)
    \/ StartArm(1)
    \/ \E u \in Users : JoinPress(u)
    \/ \E u \in Users : JoinSerialize(u)
    \/ \E u \in Users : JoinSelect(u)
    \/ \E u \in Users : JoinWrite(u)

SpecJoins == Init /\ [][Joins]_vars

\* one giveaway at a time with every call succeeding, and the process
\* stopped and started again at any moment; pool is the participant ids at
\* the latest draw
Restarting ==
    \/ \E cmd \in {"start_giveaway", "contest"}, cid \in ContestArgs :
          proc.up /\ StartReceive(1, cmd, cid)
    \/ proc.up /\ StartInitialize(1)
    \/ proc.up /\ StartSent(1, TRUE)
    \/ proc.up /\ StartArm(1)
    \/ \E u \in Users : proc.up /\ join_callback(u, 1) /\ UNCHANGED hist
    \/ proc.up /\ TimerFire(1) /\ pool' = DOMAIN participants
    \/ proc.up /\ TimerAssign(1, TRUE)
    \/ proc.up /\ TimerNotified(1, TRUE)
    \/ proc.up /\ CancelReceive
    \/ proc.up /\ CancelFetched
    \/ proc.up /\ CancelEdited(TRUE)
    \/ \E store \in {"ok", "corrupt", "unreachable"} : Restart(store)

SpecRestart == Init /\ [][Restarting]_vars

\* contests created while the bot runs, by the command and by add_contest,
\* and one start command
Catalog ==
    \/ \E d \in DurationArgs, w \in WinnerArgs, pz \in PrizeLists :
          create_contest_command(d, w, pz)
    \/ \E d \in DurationArgs, w \in WinnerArgs, pz \in PrizeLists :
          add_contest(d, w, pz)
    \/ \E cmd \in {"start_giveaway", "contest"}, cid \in ContestArgs :
          StartReceive(1, cmd, cid)
    \/ StartInitialize(1)
    \/ \E ok \in BOOLEAN : StartSent(1, ok)
    \/ StartArm(1)

SpecCatalog == Init /\ [][Catalog]_vars


\* rows a prize_claims table can hold when the claim handlers start
LedgerRows ==
    {[contest_id |-> c, position |-> p, winner_user_id |-> u, claimed_at |-> a]
        : c \in DOMAIN ContestsInit, p \in 1..2, u \in Users, a \in {None, StampInsert}}

SameKey(r1, r2) ==
    /\ r1.contest_id = r2.contest_id
    /\ r1.position = r2.position
    /\ r1.winner_user_id = r2.winner_user_id

WithCodes(rows) ==
    [k \in 1..Len(rows) |->
        [contest_id |-> rows[k].contest_id, position |-> rows[k].position,
         winner_user_id |-> rows[k].winner_user_id, claimed_at |-> rows[k].claimed_at,
         security_code |-> k]]

Ledgers ==
    {WithCodes(rows) : rows \in
        {t \in UNION {[1..n -> LedgerRows] : n \in 0..MaxRows} :
            \A a, b \in 1..Len(t) : a # b => ~SameKey(t[a], t[b])}}

\* the claim handlers of the bot and of the web process against a ledger
\* that already holds rows
InitLedger ==
    /\ participants = EmptyMap
    /\ winners = EmptyMap
    /\ claimed_winners = {}
    /\ current_contest_id = None
    /\ giveaway_message_id = None
    /\ giveaway_chat_id = None
    /\ giveaway_has_image = FALSE
    /\ contests = ContestsInit
    /\ contest_prizes = ContestPrizesInit
    /\ prize_claims \in Ledgers
    /\ giveaway_state = <<>>
    /\ startH = [i \in Gens |-> StartIdle]
    /\ timer = [i \in Gens |-> TimerNone]
    /\ cancelH = CancelIdle
    /\ claimH = [k \in ClaimSlots |-> ClaimIdle]
    /\ webH = [k \in WebSlots |-> WebIdle]
    /\ joinH = [u \in Users |-> JoinIdle]
    /\ proc = ProcFirst
    /\ statsH = StatsIdle
    /\ connH = ConnIdle
    /\ hist = [activeGen |-> 0, cancels |-> 0, cancelled |-> {}, drawn |-> {},
               ledger0 |-> prize_claims, join |-> NoJoin, create |-> "none"]
    /\ pool = {}

SpecLedger == InitLedger /\ [][Claiming]_vars

\* the catalog after /create_contest has stored a third contest, for which
\* no prize slot exists
ContestsLate ==
    ContestsInit @@ (3 :> [duration |-> 60, winners_count |-> 1, prizes |-> <<"GiftD">>])

LedgerRowsLate ==
    {[contest_id |-> c, position |-> p, winner_user_id |-> u, claimed_at |-> a]
        : c \in DOMAIN ContestsLate, p \in 1..2, u \in Users, a \in {None, StampInsert}}

LedgersLate ==
    {WithCodes(rows) : rows \in
        {t \in UNION {[1..n -> LedgerRowsLate] : n \in 0..MaxRows} :
            \A a, b \in 1..Len(t) : a # b => ~SameKey(t[a], t[b])}}

\* /claim against a ledger that holds rows of the three contests
InitLate ==
    /\ participants = EmptyMap
    /\ winners = EmptyMap
    /\ claimed_winners = {}
    /\ current_contest_id = None
    /\ giveaway_message_id = None
    /\ giveaway_chat_id = None
    /\ giveaway_has_image = FALSE
    /\ contests = ContestsLate
    /\ contest_prizes = ContestPrizesInit
    /\ prize_claims \in LedgersLate
    /\ giveaway_state = <<>>
    /\ startH = [i \in Gens |-> StartIdle]
    /\ timer = [i \in Gens |-> TimerNone]
    /\ cancelH = CancelIdle
    /\ claimH = [k \in ClaimSlots |-> ClaimIdle]
    /\ webH = [k \in WebSlots |-> WebIdle]
    /\ joinH = [u \in Users |-> JoinIdle]
    /\ proc = ProcFirst
    /\ statsH = StatsIdle
    /\ connH = ConnIdle
    /\ hist = [activeGen |-> 0, cancels |-> 0, cancelled |-> {}, drawn |-> {},
               ledger0 |-> prize_claims, join |-> NoJoin, create |-> "created"]
    /\ pool = {}

ChatClaiming ==
    \/ \E k \in ClaimSlots, u \in Users : ClaimReceive(k, u)
    \/ \E k \in ClaimSlots : ClaimLookup(k)
    \/ \E k \in ClaimSlots : ClaimMark(k)

SpecLate == InitLate /\ [][ChatClaiming]_vars

\* one giveaway with failing calls, its cancellation, and /stats at any moment
Observing ==
    \/ \E cmd \in {"start_giveaway", "contest"}, cid \in ContestArgs :
          StartReceive(1, cmd, cid)
    \/ StartInitialize(1)
    \/ \E ok \in BOOLEAN : StartSent(1, ok)
    \/ StartArm(1)
    \/ \E u \in Users : join_callback(u, 1) /\ UNCHANGED hist
    \/ TimerFire(1) /\ UNCHANGED pool
    \/ \E ok \in BOOLEAN : TimerAssign(1, ok)
    \/ \E ok \in BOOLEAN : TimerNotified(1, ok)
    \/ CancelReceive
    \/ CancelFetched
    \/ \E ok \in BOOLEAN : CancelEdited(ok)
    \/ StatsReceive
    \/ \E ok \in BOOLEAN : StatsFetched(ok)

SpecStats == Init /\ [][Observing]_vars

\* calls of get_db_connection against a server that accepts or refuses
\* each attempt
Connecting ==
    \/ ConnectCall
    \/ \E ok \in BOOLEAN : ConnectAttempt(ok)
    \/ ConnectSleep

\* every attempt and every sleep that is awaited returns
SpecConnect ==
    Init /\ [][Connecting]_vars
         /\ WF_vars(\E ok \in BOOLEAN : ConnectAttempt(ok)) /\ WF_vars(ConnectSleep)

\* the answer of the claim button to the account u
claim_prize(u) ==
    IF u \notin DOMAIN winners THEN "NotWinner"
    ELSE IF u \in claimed_winners THEN "AlreadyClaimed"
    ELSE "SendClaimInPrivate"

\* the draws a giveaway of contest 1 or 2 can end with when every user joined
Draws ==
    UNION {{[cid |-> c, sel |-> sel] :
               sel \in Sample(Users, Min(ContestsInit[c].winners_count, MaxUsers))}
           : c \in DOMAIN ContestsInit}

\* the rows of a draw, each with claimed_at as inserted or set to NULL since
DrawnLedgers(d) ==
    {[k \in 1..Len(d.sel) |->
         [contest_id |-> d.cid, position |-> k, winner_user_id |-> d.sel[k],
          claimed_at |-> stamps[k], security_code |-> k]]
     : stamps \in [1..Len(d.sel) -> {None, StampInsert}]}

\* the state a completed draw of the first giveaway leaves: the winners map
\* of the draw, the engine Idle, the state saved, the rows in the ledger
InitDrawn ==
    /\ contests = ContestsInit
    /\ contest_prizes = ContestPrizesInit
    /\ participants = [u \in Users |-> 1]
    /\ \E d \in Draws :
          /\ winners = [u \in {d.sel[k] : k \in 1..Len(d.sel)} |->
                          prize_name(d.cid, CHOOSE k \in 1..Len(d.sel) : d.sel[k] = u)]
          /\ prize_claims \in DrawnLedgers(d)
          /\ timer = [i \in Gens |-> IF i = 1 THEN [TimerNone EXCEPT !.pc = "done"]
                                     ELSE TimerNone]
    /\ claimed_winners = {}
    /\ current_contest_id = None
    /\ giveaway_message_id = None
    /\ giveaway_chat_id = None
    /\ giveaway_has_image = FALSE
    /\ giveaway_state = <<Serialize>>
    /\ startH = [i \in Gens |-> IF i = 1 THEN [StartIdle EXCEPT !.pc = "done"]
                                ELSE StartIdle]
    /\ cancelH = CancelIdle
    /\ claimH = [k \in ClaimSlots |-> ClaimIdle]
    /\ webH = [k \in WebSlots |-> WebIdle]
    /\ joinH = [u \in Users |-> JoinIdle]
    /\ proc = ProcFirst
    /\ statsH = StatsIdle
    /\ connH = ConnIdle
    /\ hist = [activeGen |-> 1, cancels |-> 0, cancelled |-> {}, drawn |-> {1},
               ledger0 |-> prize_claims, join |-> NoJoin, create |-> "none"]
    /\ pool = {}

\* /claim by the users after the draw
SpecDrawn == InitDrawn /\ [][ChatClaiming]_vars

Next == Lifecycle \/ Reliable \/ Single \/ Claiming \/ Joins \/ Restarting \/ Catalog
           \/ ChatClaiming \/ Observing \/ Connecting

\* ============================================================= properties
DrawPcs == {"notify_empty", "assign", "notify"}

\* C1: while a giveaway is running, a start command (/start_giveaway or
\* /contest) is rejected when it is received, and no step of its handler
\* changes the engine state or the countdowns.
StartWhileOpenRejected ==
    [][\A i \in Gens :
          /\ (startH[i].pc = "idle" /\ startH'[i].pc # "idle" /\ is_giveaway_running)
                => startH'[i].pc = "rejected"
          /\ (startH[i].open /\ startH'[i] # startH[i])
                => (engine' = engine /\ timer' = timer)]_vars

\* C2: at most one end_giveaway countdown is pending.
AtMostOneCountdown == Cardinality({g \in Gens : timer[g].pc = "sleep"}) <= 1

\* C3: once Cancel has completed for a giveaway, the countdown of that
\* giveaway's start takes no step of Draw (it may still be armed by a start
\* handler that was suspended in its save).
CancelledCountdownNeverFires ==
    [][\A g \in Gens :
          (g \in hist.cancelled /\ timer'[g] # timer[g]) => timer[g].pc = "none"]_vars

\* C4: for no giveaway both its Draw and a Cancel of it complete.
DrawXorCancel == \A g \in Gens : ~(timer[g].pc = "done" /\ g \in hist.cancelled)

\* C5: a Draw begins only while a giveaway is running, only when no other
\* Draw is in progress, and only once per giveaway.
DrawOnceWhileOpen ==
    [][\A g \in Gens :
          (timer[g].pc = "sleep" /\ timer'[g].pc # "sleep")
             => /\ is_giveaway_running
                /\ \A h \in Gens \ {g} : timer[h].pc \notin DrawPcs
                /\ hist.activeGen \notin hist.drawn]_vars

\* ------------------------------------------------ claims by one winner
Received(k) == claimH[k].pc # "idle"

\* the rows of the user that were unclaimed when the handlers started
Unclaimed0(u) ==
    {r \in 1..Len(hist.ledger0) :
        hist.ledger0[r].winner_user_id = u /\ hist.ledger0[r].claimed_at = None}

HasSlot(r) ==
    [contest_id |-> hist.ledger0[r].contest_id,
     position |-> hist.ledger0[r].position] \in contest_prizes

\* slots a and b hold the only two /claim calls of user u, both returned, u
\* held exactly the unclaimed row r, and no web request named r's code
TwoClaims(a, b, u, r) ==
    /\ a # b
    /\ claimH[a].pc = "done" /\ claimH[b].pc = "done"
    /\ claimH[a].user = u /\ claimH[b].user = u
    /\ \A k \in ClaimSlots \ {a, b} : Received(k) => claimH[k].user # u
    /\ Unclaimed0(u) = {r}
    /\ \A w \in WebSlots : webH[w].code # hist.ledger0[r].security_code

ReturnsPrizeOf(k, r) ==
    /\ claimH[k].out = "Prize"
    /\ claimH[k].contest_id = hist.ledger0[r].contest_id
    /\ claimH[k].position = hist.ledger0[r].position

ShownFor(r) ==
    Cardinality({w \in WebSlots : webH[w].out = "Prize" /\ webH[w].code = prize_claims[r].security_code})
    + Cardinality({k \in ClaimSlots :
                      /\ claimH[k].out = "Prize"
                      /\ claimH[k].user = prize_claims[r].winner_user_id
                      /\ claimH[k].contest_id = prize_claims[r].contest_id
                      /\ claimH[k].position = prize_claims[r].position})

NewClaimRowsUnclaimed ==
    [][/\ \A k \in 1..Len(prize_claims') :
             k > Len(prize_claims) => prize_claims'[k].claimed_at = None
       /\ \A k \in 1..Len(prize_claims) :
             prize_claims[k].claimed_at = None => prize_claims'[k].claimed_at = None]_vars

\* C10: a step changes the claimed_at of a row only if it is null, and no
\* row is removed.
ClaimedAtSetOnce ==
    [][/\ Len(prize_claims') >= Len(prize_claims)
       /\ \A k \in 1..Len(prize_claims) :
             prize_claims[k].claimed_at # None
                => prize_claims'[k].claimed_at = prize_claims[k].claimed_at]_vars

\* a conditional update ran against a row that was already claimed, and a
\* row that started unclaimed carries the stamp of the claim that marked it
UpdateMetClaimedRow ==
    /\ \/ \E k \in ClaimSlots : claimH[k].rc = 0
       \/ \E w \in WebSlots : webH[w].rc = 0
    /\ \E r \in 1..Len(prize_claims) :
          hist.ledger0[r].claimed_at = None /\ prize_claims[r].claimed_at # None

\* ------------------------------------------------------------------ draw
\* C11: when recording a winner fails during Draw, no selected winner of
\* that draw keeps a Prize Claim row or an entry in the winners map.
FailedDrawRecordsNobody ==
    [][\A g \in Gens :
          (timer[g].pc = "assign" /\ timer'[g].pc = "failed")
             => /\ \A k \in timer[g].rows : k > Len(prize_claims')
                /\ \A i \in 1..Len(timer[g].sel) :
                      timer[g].sel[i] \notin DOMAIN winners']_vars

\* C12: when a Draw with winners completes, the winners map holds exactly the
\* sampled users and the rows the draw wrote are one per winner, in the drawn
\* contest at the winner's position.
DrawRowsMatchWinners ==
    [][\A g \in Gens :
          (timer[g].pc = "notify" /\ timer'[g].pc = "done")
             => LET sel == timer[g].sel
                IN /\ DOMAIN winners' = {sel[i] : i \in 1..Len(sel)}
                   /\ Cardinality(timer[g].rows) = Len(sel)
                   /\ \A i \in 1..Len(sel) : \E k \in timer[g].rows :
                         /\ prize_claims'[k].contest_id = timer[g].cid
                         /\ prize_claims'[k].position = i
                         /\ prize_claims'[k].winner_user_id = sel[i]]_vars

\* C13: the sample taken when the countdown fires has min(W, N) members, all
\* distinct, all participants at that moment.
SampleClampedDistinct ==
    [][\A g \in Gens :
          (timer[g].pc = "sleep" /\ timer'[g].pc = "assign")
             => LET N == Cardinality(DOMAIN participants)
                    W == contests[timer[g].cid].winners_count
                    sel == timer'[g].sel
                IN /\ Len(sel) = IF W <= N THEN W ELSE N
                   /\ \A a, b \in 1..Len(sel) : a # b => sel[a] # sel[b]
                   /\ \A a \in 1..Len(sel) : sel[a] \in DOMAIN participants]_vars

\* a draw in progress that selected fewer winners than the contest asks for
ClampedSampleDrawn ==
    \E g \in Gens :
       /\ timer[g].pc = "assign"
       /\ Len(timer[g].sel) >= 1
       /\ Len(timer[g].sel) < contests[timer[g].cid].winners_count

\* C14: a countdown that fires with no participant writes no Prize Claim row
\* and no winners entry, and its Draw ends with the engine Idle and the
\* snapshot of the Idle state saved.
EmptyDrawReturnsIdle ==
    [][\A g \in Gens :
          /\ (timer[g].pc = "sleep" /\ timer'[g].pc = "notify_empty")
                => (prize_claims' = prize_claims /\ winners' = winners)
          /\ (timer[g].pc = "notify_empty" /\ timer'[g] # timer[g])
                => /\ timer'[g].pc = "done"
                   /\ current_contest_id' = None
                   /\ Len(giveaway_state') = 1
                   /\ giveaway_state'[1].current_contest_id = None
                   /\ prize_claims' = prize_claims /\ winners' = winners]_vars

\* C15: the step that records the i-th sampled user writes one row at
\* position i for that user and maps the user to the i-th prize of the
\* contest, or to "Prize i" when the contest has fewer than i prizes.
PositionsFollowSampleOrder ==
    [][\A g \in Gens :
          (timer[g].pc = "assign" /\ timer'[g].pc \in {"assign", "notify"}
           /\ timer'[g] # timer[g])
             => LET i == timer[g].n + 1
                    uid == timer[g].sel[i]
                    prizes == contests[timer[g].cid].prizes
                    row == prize_claims'[Len(prize_claims')]
                IN /\ timer'[g].n = i
                   /\ Len(prize_claims') = Len(prize_claims) + 1
                   /\ row.position = i /\ row.winner_user_id = uid
                   /\ uid \in DOMAIN winners'
                   /\ winners'[uid] = IF i <= Len(prizes) THEN prizes[i]
                                      ELSE "Prize " \o ToString(i)]_vars

\* a second winner of a contest with one prize holds the row at position 2
\* and the placeholder
PlaceholderAssigned ==
    \E u \in DOMAIN winners :
       /\ winners[u] = "Prize 2"
       /\ \E k \in 1..Len(prize_claims) :
             prize_claims[k].position = 2 /\ prize_claims[k].winner_user_id = u

\* C16: the countdown of a giveaway that was not cancelled never aborts, and
\* when it finishes the engine is Idle and, after a draw with participants,
\* the winners map holds min(W, N) users with one row each.
UncancelledGiveawayEnds ==
    [][\A g \in Gens :
          (g \notin hist.cancelled /\ timer'[g] # timer[g])
             => /\ timer'[g].pc # "failed"
                /\ timer'[g].pc = "done"
                      => /\ current_contest_id' = None
                         /\ timer[g].pc = "notify"
                               => /\ Cardinality(DOMAIN winners') = Len(timer[g].sel)
                                  /\ Cardinality(timer[g].rows) = Len(timer[g].sel)]_vars

\* ---------------------------------------------------------------- cancel
Cleared ==
    /\ participants = EmptyMap
    /\ winners = EmptyMap
    /\ claimed_winners = {}
    /\ current_contest_id = None
    /\ giveaway_message_id = None
    /\ giveaway_chat_id = None

\* C17: a Cancel of a running giveaway with participants ends with the
\* engine state cleared and the cleared state saved, and the countdown of a
\* cancelled giveaway writes no Prize Claim row afterwards.
CancelClearsAndStopsDraw ==
    [][/\ (cancelH.pc = "edit" /\ cancelH'.pc = "idle" /\ DOMAIN participants # {})
             => /\ Cleared'
                /\ Len(giveaway_state') = 1
                /\ giveaway_state'[1].participants = EmptyMap
                /\ giveaway_state'[1].current_contest_id = None
       /\ \A g \in Gens :
             (g \in hist.cancelled /\ timer'[g] # timer[g])
                => prize_claims' = prize_claims]_vars

\* ------------------------------------------------------------------ join
\* C18: a Join by a user who is already a participant leaves the participant
\* map, the stored profile included, as it was: no step that changes the map
\* is a Join by one of its keys.
JoinIdempotent ==
    [][\A u \in Users, p \in Profiles :
          (u \in DOMAIN participants /\ participants' # participants)
             => ~join_callback(u, p)]_vars

\* during a giveaway the latest Join was pressed by a participant whose
\* profile had changed since the first Join
RejoinedWithNewProfile ==
    /\ is_giveaway_running
    /\ hist.join.out = "already"
    /\ hist.join.changed

\* C19: a Join received while no giveaway is running changes neither the
\* participant map nor the snapshot.
JoinOnlyWhileOpen ==
    [][\A u \in Users, p \in Profiles :
          (current_contest_id = None /\ join_callback(u, p))
             => (participants' = participants /\ giveaway_state' = giveaway_state)]_vars

\* C20: a Join by a bot account changes neither the participant map nor the
\* snapshot (no step that changes one of them is a bot's Join), and no bot
\* id is a key of the participant map or of the winners map.
BotsNeverParticipate ==
    [][/\ (DOMAIN participants' \cup DOMAIN winners') \cap Bots = {}
       /\ \A b \in Bots, p \in Profiles :
             (participants' # participants \/ giveaway_state' # giveaway_state)
                => ~join_callback(b, p)]_vars

\* a bot pressed Join while a giveaway with participants was running
BotJoinAnswered ==
    /\ hist.join.out = "bot"
    /\ is_giveaway_running
    /\ DOMAIN participants # {}

\* C21: when every human has pressed Join on the announcement of the running
\* giveaway and all those join handlers have returned, every one of them is a key of
\* participants and is in the participants of the snapshot row.
ConcurrentJoinsAllPersisted ==
    (/\ is_giveaway_running
     /\ \A u \in Users : joinH[u].pc = "done" /\ joinH[u].open)
    => /\ Users \subseteq DOMAIN participants
       /\ Len(giveaway_state) >= 1
       /\ Users \subseteq DOMAIN giveaway_state[1].participants

\* C22: when the snapshot row is the save of the state in memory and the
\* process restarts and loads that row, the loaded state has the same
\* participant ids, the same winners (user_id in winners answers as before
\* for every user, with the same prize), the same claimed set and the same
\* current_contest_id.
SaveLoadRoundTrip ==
    [][(/\ proc'.boots # proc.boots
        /\ proc'.load = "row"
        /\ giveaway_state[1] = Serialize)
       => /\ DOMAIN participants' = DOMAIN participants
          /\ \A u \in Users :
                /\ (is_winner(u))' = is_winner(u)
                /\ is_winner(u) => winners'[u] = winners[u]
          /\ claimed_winners' = claimed_winners
          /\ current_contest_id' = current_contest_id]_vars

\* C24: every start of the process reaches polling, and a load that did
\* not load the row leaves the empty state.
LoadNeverAbortsStartup ==
    [][proc'.boots # proc.boots
       => /\ proc'.up
          /\ proc'.load # "row"
                => /\ participants' = EmptyMap /\ winners' = EmptyMap
                   /\ claimed_winners' = {} /\ current_contest_id' = None
                   /\ giveaway_message_id' = None /\ giveaway_chat_id' = None
                   /\ giveaway_has_image' = FALSE]_vars

\* C25: every key of winners was a key of participants when the latest draw
\* sampled, and every claimed user is a key of winners.
WinnersWereParticipants ==
    /\ DOMAIN winners \subseteq pool
    /\ claimed_winners \subseteq DOMAIN winners

\* no handler and no draw is between two of its steps
Quiescent ==
    /\ \A i \in Gens : startH[i].pc \notin {"fetch", "send", "arm"}
    /\ \A g \in Gens : timer[g].pc \notin DrawPcs
    /\ cancelH.pc = "idle"

\* C23: whenever no operation is in progress, the snapshot row holds the
\* state in memory as save_state_to_db writes it (no row yet: the state in
\* memory is the empty one).
SnapshotMatchesMemory ==
    Quiescent =>
        IF Len(giveaway_state) = 0 THEN Serialize = EmptyState
        ELSE giveaway_state[1] = Serialize

\* a stored definition with duration <= 0, winner count <= 0 or no
\* non-blank prize
FailsValidation(c) ==
    \/ c.duration <= 0
    \/ c.winners_count <= 0
    \/ \A i \in 1..Len(c.prizes) : c.prizes[i] \in {"", " "}

\* C28: the step of a start handler that learns that its contest id is
\* unknown, or that the stored definition fails validation, ends the handler
\* and changes neither the engine state, the snapshot nor the countdowns;
\* and every armed countdown belongs to a contest with positive duration,
\* positive winner count and a non-blank prize.
InvalidStartArmsNothing ==
    [][/\ \A i \in Gens :
             (/\ startH[i].pc = "fetch"
              /\ startH'[i] # startH[i]
              /\ \/ startH[i].cid \notin DOMAIN contests
                 \/ FailsValidation(contests[startH[i].cid]))
             => /\ startH'[i].pc \in {"notfound", "invalid"}
                /\ engine' = engine
                /\ giveaway_state' = giveaway_state
                /\ timer' = timer
       /\ \A g \in Gens :
             timer'[g].pc = "sleep" => ~FailsValidation(contests'[timer'[g].cid])]_vars

\* a start of a stored contest that fails validation has ended, the engine Idle
InvalidStartEnded ==
    \E i \in Gens : startH[i].pc = "invalid" /\ ~is_giveaway_running

\* C29: every contest row a step adds has positive duration, positive winner
\* count and a non-blank prize, and a request that is answered with
\* InvalidParameters adds none.
CreateStoresOnlyValid ==
    [][/\ \A c \in DOMAIN contests' \ DOMAIN contests : ~FailsValidation(contests'[c])
       /\ (hist'.create = "InvalidParameters" /\ hist' # hist) => contests' = contests]_vars

\* the unclaimed prize_claims rows of the user u
UnclaimedOf(u) ==
    {j \in 1..Len(prize_claims) :
        prize_claims[j].winner_user_id = u /\ prize_claims[j].claimed_at = None}

NotificationFailureStillIdle ==
    [][(\/ \E g \in Gens : timer[g].pc \in {"notify", "notify_empty"} /\ timer'[g] # timer[g]
        \/ cancelH.pc = "edit" /\ cancelH' # cancelH)
       => /\ current_contest_id' = None
          /\ Len(giveaway_state') >= 1
          /\ giveaway_state'[1] = Serialize']_vars

\* C31: /stats is read-only. Every step of stats_command leaves the
\* participant map, the winners map, the claimed set, active-contest-id,
\* the announcement coordinates, the armed countdown, the snapshot and
\* every Prize Ledger row unchanged, and the counts it reports are the sizes
\* of the participant map, the winners map and the claimed set in memory.
StatsReadOnly ==
    [][statsH' # statsH /\ proc' = proc =>
          /\ UNCHANGED <<engine, timer, giveaway_state, prize_claims, catalog>>
          /\ statsH'.out = "Stats" =>
                /\ statsH'.counts.participants = Cardinality(DOMAIN participants)
                /\ statsH'.counts.winners = Cardinality(DOMAIN winners)
                /\ statsH'.counts.claimed = Cardinality(claimed_winners)]_vars

\* /stats has reported a running giveaway that has participants and a winner
StatsReported ==
    /\ statsH.out = "Stats"
    /\ statsH.counts.participants > 0
    /\ statsH.counts.winners > 0

\* C34: get_db_connection makes at most max_retries attempts with the fixed
\* delay between consecutive attempts, returns the connection of the first
\* attempt that succeeds without a further attempt, raises the connection
\* failure exactly when the last attempt fails, and every call ends.
ConnectTerminatesBounded ==
    /\ [](/\ connH.made <= MaxRetries
          /\ connH.pc = "done" =>
                /\ connH.out \in {"connection", "ConnectionError"}
                /\ connH.slept = RetryDelay * (connH.made - 1)
                /\ connH.out = "ConnectionError" => connH.made = MaxRetries)
    /\ [][connH.out = "connection" /\ connH'.made # connH.made
             => connH'.log = connH.log /\ connH'.made = 0]_vars
    /\ (connH.pc \in {"try", "sleep"} ~> connH.pc = "done")

\* three calls have ended: one at its first attempt, one at a later attempt
\* after the delays, one with the connection failure after three attempts
ConnectAllOutcomes ==
    /\ connH.pc = "done"
    /\ connH.log = <<<<"connection", 1>>, <<"connection", 3>>, <<"ConnectionError", 3>>>>

\* C32: for every (contest ID, position) the Prize Ledger holds at most one
\* Prize Claim row, one winner per slot, after any sequence of giveaways, and
\* no (contest, position, winner) triple is recorded twice.
OneClaimRowPerSlot ==
    \A a, b \in 1..Len(prize_claims) :
        a # b => ~(/\ prize_claims[a].contest_id = prize_claims[b].contest_id
                   /\ prize_claims[a].position = prize_claims[b].position)

\* C33: the snapshot is a singleton. After any interleaving of saves, each
\* of which reads whether a row exists and then updates row 1 or inserts a
\* row, the snapshot relation holds at most one row, so that the row read
\* back is the one the last completed save wrote.
SnapshotSingleton == Len(giveaway_state) <= 1

\* C35: whenever active-contest-id is set and no start handler is between
\* its initialization and the arming of its countdown, a countdown that will
\* run the draw, or is running it, is pending.
CountdownPendingWhileOpen ==
    (/\ is_giveaway_running
     /\ \A i \in Gens : startH[i].pc \notin {"send", "arm"})
    => \E g \in Gens : timer[g].pc \in {"sleep"} \cup DrawPcs

\* C36: every Prize Claim row written by a draw has a matching Prize Slot
\* (contest ID, position), so that the latest-unclaimed lookup, which joins
\* the two relations, can return a record for every winner.
EveryClaimRowHasSlot ==
    \A k \in 1..Len(prize_claims) :
        [contest_id |-> prize_claims[k].contest_id,
         position |-> prize_claims[k].position] \in contest_prizes

\* C37: a draw writes its Prize Claim rows under the contest whose winner
\* count and prize list it selects with: the contest captured when the
\* countdown was armed and the active-contest-id read when it fires and
\* assigns are the same, and so is the contest ID of every row it wrote.
DrawUsesOneContest ==
    \A g \in Gens :
        /\ timer[g].pc = "assign" => timer[g].arg = timer[g].cid
        /\ \A k \in timer[g].rows :
              k <= Len(prize_claims) => prize_claims[k].contest_id = timer[g].cid

====
